---- MODULE Spec2Model ----
(***************************************************************************)
(* Model of the inventory backend (src/main.ts, second revision, lines     *)
(* 170-395): the cached table fetch, the Items/Tags join of the two GET    *)
(* handlers and the Filters predicate engine.                              *)
(*                                                                         *)
(* JavaScript strings that the code splits or compares (ID2, query values) *)
(* are sequences of one-character strings, so that String.split is         *)
(* computed and not assumed.                                               *)
(***************************************************************************)
EXTENDS Integers, Sequences, FiniteSets, TLC

VARIABLES
    remote,      \* the remote store: table name -> rows (api.fetchTable reads it)
    now,         \* wall clock, in seconds
    dedupes,     \* cache: table name -> is a remote fetch of it in flight
    storage,     \* cache: table name -> NoEntry or [value, start]
    fetchCount,  \* number of remote fetches issued so far, per table
    req,         \* the HTTP requests, one record per request
    tables,      \* handler check: the rows the two fetches returned
    call,        \* handler check: the endpoint and query of the last call
    reply        \* handler check: what the handler returned

vars == <<remote, now, dedupes, storage, fetchCount, req, tables, call, reply>>

cacheVars == <<remote, now, dedupes, storage, fetchCount, req>>
handlerVars == <<tables, call, reply>>

-----------------------------------------------------------------------------
(* Values of the JavaScript side *)

\* an absent query parameter (query.id === undefined)
undefined == <<"undefined">>

\* Tag.link when no item references the tag
null == [null |-> TRUE]

\* TagType.Item
TagTypeItem == "ITEM"

\* PossessionType.Unspecified
PossessionUnspecified == "UNSPECIFIED"

\* JavaScript truthiness of an optional string: undefined and "" are falsy
truthy(s) == s # undefined /\ s # << >>

RECURSIVE split(_)
\* s.split(","): the pieces between commas, empty pieces included
split(s) ==
    IF \A k \in 1..Len(s) : s[k] # ","
    THEN <<s>>
    ELSE LET k == CHOOSE i \in 1..Len(s) :
                      s[i] = "," /\ \A j \in 1..(i - 1) : s[j] # ","
         IN  <<SubSeq(s, 1, k - 1)>> \o split(SubSeq(s, k + 1, Len(s)))

-----------------------------------------------------------------------------
(* toISOTimestamp: new Date(timestamp * 1000).toJSON(), for a whole number  *)
(* of seconds from 1970 up to the year 9999. The product timestamp * 1000  *)
(* is exact in a JavaScript number over that range; it is kept here as the *)
(* pair (whole seconds, milliseconds within the second).                   *)

pad(n, width) ==
    LET s == ToString(n)
    IN  IF width - Len(s) = 3 THEN "000" \o s
        ELSE IF width - Len(s) = 2 THEN "00" \o s
        ELSE IF width - Len(s) = 1 THEN "0" \o s
        ELSE s

toISOTimestamp(timestamp) ==
    LET secs == timestamp
        ms   == 0
        days == secs \div 86400
        tod  == secs % 86400
        z    == days + 719468
        era  == z \div 146097
        doe  == z - era * 146097
        yoe  == (doe - doe \div 1460 + doe \div 36524 - doe \div 146096) \div 365
        doy  == doe - (365 * yoe + yoe \div 4 - yoe \div 100)
        mp   == (5 * doy + 2) \div 153
        d    == doy - (153 * mp + 2) \div 5 + 1
        m    == IF mp < 10 THEN mp + 3 ELSE mp - 9
        y    == yoe + era * 400 + (IF m <= 2 THEN 1 ELSE 0)
    IN  pad(y, 4) \o "-" \o pad(m, 2) \o "-" \o pad(d, 2) \o "T"
        \o pad(tod \div 3600, 2) \o ":" \o pad((tod % 3600) \div 60, 2)
        \o ":" \o pad(tod % 60, 2) \o "." \o pad(ms, 3) \o "Z"

-----------------------------------------------------------------------------
(* class Filters *)

\* Filters.in(values, getter): the closure, as the Set it captures and the
\* getter it applies ("id" for item => item.id, "tags" for item => item.tags || [])
FiltersIn(values, getter) ==
    [set |-> {values[k] : k \in DOMAIN values}, getter |-> getter]

\* the closure returned by Filters.in, applied to an item
criteria(c, item) ==
    LET result == IF c.getter = "tags" THEN item.tags ELSE item.id
        values == IF c.getter = "tags" THEN result ELSE <<result>>
    IN  \E k \in DOMAIN values : values[k] \in c.set

\* Filters.match: every criteria holds
FiltersMatch(filters, item) ==
    \A k \in DOMAIN filters : criteria(filters[k], item)

-----------------------------------------------------------------------------
(* new Map(entries): a later entry replaces an earlier one with the same key *)

lastIndex(rows, key, n) ==
    CHOOSE k \in DOMAIN rows :
        /\ rows[k][key] = n
        /\ \A j \in DOMAIN rows : rows[j][key] = n => j <= k

\* a map keyed by the row's position instead of its id
tagMap_bySort(tags) ==
    [n \in {tags[k].manualSort : k \in DOMAIN tags} |->
        tags[lastIndex(tags, "manualSort", n)]]

\* new Map(tags.map((tag) => [tag.id, tag]))
tagMap(tags) ==
    [n \in {tags[k].id : k \in DOMAIN tags} |-> tags[lastIndex(tags, "id", n)]]

\* a map keyed by the item's own numeric id instead of its Tag
itemByTag_byId(items) ==
    [n \in {items[k].id : k \in DOMAIN items} |->
        items[lastIndex(items, "id", n)].ID2]

\* new Map(items.map((item) => [item.Tag, item.ID2]))
itemByTag(items) ==
    [n \in {items[k].Tag : k \in DOMAIN items} |->
        items[lastIndex(items, "Tag", n)].ID2]

-----------------------------------------------------------------------------
(* GET /items *)

\* a handler that adds no id criteria
itemsFilters_noId(query) ==
    IF truthy(query.tag)
    THEN <<FiltersIn(split(query.tag), "tags")>> ELSE << >>

\* a handler whose tag criteria reads the item's id
itemsFilters_tagById(query) ==
    (IF truthy(query.id)
     THEN <<FiltersIn(split(query.id), "id")>> ELSE << >>)
    \o
    (IF truthy(query.tag)
     THEN <<FiltersIn(split(query.tag), "id")>> ELSE << >>)

\* the criteria the /items handler adds for a query
itemsFilters(query) ==
    (IF truthy(query.id)
     THEN <<FiltersIn(split(query.id), "id")>> ELSE << >>)
    \o
    (IF truthy(query.tag)
     THEN <<FiltersIn(split(query.tag), "tags")>> ELSE << >>)

\* the .map callback of the /items handler
mapItem(item, tags) ==
    LET tm       == tagMap(tags)
        itemTags == IF item.Tag \in DOMAIN tm THEN <<tm[item.Tag].ID2>> ELSE << >>
    IN  [id          |-> item.ID2,
         name        |-> item.Name,
         description |-> item.Description,
         notes       |-> "",
         type        |-> TagTypeItem,
         tags        |-> itemTags,
         possession  |-> [type |-> PossessionUnspecified, id |-> ""],
         createdAt   |-> toISOTimestamp(item.CreatedAt),
         updatedAt   |-> toISOTimestamp(item.UpdatedAt)]

\* the /items handler, after both fetches resolved
getItems(items, tags, query) ==
    LET filters == itemsFilters(query)
        mapped  == [k \in DOMAIN items |-> mapItem(items[k], tags)]
    IN  SelectSeq(mapped, LAMBDA item : FiltersMatch(filters, item))

-----------------------------------------------------------------------------
(* GET /tags *)

\* the criteria the /tags handler adds for a query
tagsFilters(query) ==
    IF truthy(query.id)
    THEN <<FiltersIn(split(query.id), "id")>> ELSE << >>

\* the .map callback of the /tags handler
mapTag(tag, items) ==
    LET ibt    == itemByTag(items)
        itemId == IF tag.id \in DOMAIN ibt THEN ibt[tag.id] ELSE undefined
    IN  [id        |-> tag.ID2,
         link      |-> IF truthy(itemId)
                       THEN [id |-> itemId, type |-> TagTypeItem]
                       ELSE null,
         createdAt |-> toISOTimestamp(tag.CreatedAt),
         updatedAt |-> toISOTimestamp(tag.UpdatedAt)]

\* the /tags handler, after both fetches resolved
getTags(items, tags, query) ==
    LET filters == tagsFilters(query)
        mapped  == [k \in DOMAIN tags |-> mapTag(tags[k], items)]
    IN  SelectSeq(mapped, LAMBDA tag : FiltersMatch(filters, tag))

\* the handler of an endpoint
handle(endpoint, items, tags, query) ==
    IF endpoint = "items" THEN getItems(items, tags, query)
    ELSE getTags(items, tags, query)

-----------------------------------------------------------------------------
(* Inputs of the handler check *)

\* most rows of a table
MaxRows == 2

\* the strings "", "A", "A,B", "A," and ","
StrEmpty == << >>
StrA == <<"A">>
StrAB == <<"A", ",", "B">>
StrAComma == <<"A", ",">>
StrComma == <<",">>

\* rows of the Items table, as (ID2, Tag): ids that are empty, plain and
\* with a comma; rows sharing an ID2; rows sharing a Tag
ItemRowPool ==
    { <<StrA, 10>>, <<StrA, 20>>, <<StrEmpty, 10>>, <<StrAB, 10>>, <<StrAB, 20>> }

\* rows of the Tags table, as (id, ID2): rows sharing a numeric id, rows
\* sharing an ID2, an ID2 with a comma and an empty ID2
TagRowPool ==
    { <<10, StrA>>, <<10, StrAB>>, <<20, StrA>>, <<20, StrEmpty>> }

ItemRow(k, id2, tag) ==
    [id |-> k, manualSort |-> k, ID2 |-> id2, Name |-> "Name",
     Description |-> "Description", Tag |-> tag,
     CreatedAt |-> 1000, UpdatedAt |-> 1700000000]

TagRow(k, n, id2) ==
    [id |-> n, manualSort |-> k, ID2 |-> id2, CreatedAt |-> 900, UpdatedAt |-> 900]

ItemTables ==
    UNION { { [k \in 1..m |-> ItemRow(k, f[k][1], f[k][2])] :
                f \in [1..m -> ItemRowPool] } : m \in 0..MaxRows }

TagTables ==
    UNION { { [k \in 1..m |-> TagRow(k, f[k][1], f[k][2])] :
                f \in [1..m -> TagRowPool] } : m \in 0..MaxRows }

\* values of one query parameter
OptQuery == {undefined, StrEmpty, StrA, StrAB, StrAComma, StrComma}

\* queries of GET /items: one parameter alone, or both
ItemsQueries ==
    { [id |-> i, tag |-> undefined] : i \in OptQuery }
    \cup { [id |-> undefined, tag |-> t] : t \in OptQuery }
    \cup { [id |-> i, tag |-> t] : i \in {StrA, StrAB}, t \in {StrA, StrAB} }

\* queries of GET /tags
TagsQueries == { [id |-> i] : i \in OptQuery }

NoCall == [endpoint |-> "none"]

-----------------------------------------------------------------------------
(* The cache: createCache({ ttl: 60 }).define("fetchTable", ...), with the  *)
(* behaviour of async-cache-dedupe: one call in flight per key, the        *)
(* resolved value kept for ttl seconds, a rejection kept nowhere           *)

Tables == {"Items", "Tags"}

\* ttl: 60
CacheTtl == 60

\* number of HTTP requests
NumReqs == 2

\* the clock stops here
MaxNow == 62

\* seconds the clock advances in one step
TickStep == 30

Reqs == 1..NumReqs

NoEntry == [empty |-> TRUE]
Pending == [pending |-> TRUE]
NoResp == [status |-> 0]

\* what the remote store can hold
RemoteItems ==
    { <<ItemRow(1, StrA, 10)>>,
      <<ItemRow(1, StrA, 10), ItemRow(2, <<"B">>, 20)>> }

RemoteTags ==
    { <<TagRow(1, 10, <<"T", "1">>)>>,
      <<TagRow(1, 10, <<"T", "1">>), TagRow(2, 20, <<"T", "2">>)>> }

RemoteOf(t) == IF t = "Items" THEN RemoteItems ELSE RemoteTags

\* the calls a request can be
Calls ==
    { [endpoint |-> "items", query |-> [id |-> undefined, tag |-> undefined]],
      [endpoint |-> "tags", query |-> [id |-> undefined]] }

\* an entry that never expires
unexpired_forever(entry) == TRUE

\* memory storage: an entry is served while start + ttl > now
unexpired(entry) == entry.start + CacheTtl > now

\* a cache that does not join the call in flight
lookup_noJoin(t) ==
    IF storage[t] # NoEntry /\ unexpired(storage[t]) THEN "hit" ELSE "miss"

\* a cache that keeps no value
lookup_noHit(t) == IF dedupes[t] THEN "join" ELSE "miss"

\* what the cached fetchTable does for a table: join the call in flight,
\* return the stored value, or call the remote store
lookup(t) ==
    IF dedupes[t] THEN "join"
    ELSE IF storage[t] # NoEntry /\ unexpired(storage[t]) THEN "hit"
    ELSE "miss"

\* a cache that keeps a rejection like a value
afterReject_kept(entry) == entry

\* what the cache keeps of a rejected remote call
afterReject(entry) == NoEntry

\* a request holds a rejected fetch: Promise.all([fetchItems(), fetchTags()])
\* rejects as soon as one of the two rejects
rejected(rq) == \E t \in Tables : rq.got[t] # Pending /\ ~rq.got[t].ok

\* a request holds both tables: Promise.all resolves
resolved(rq) == \A t \in Tables : rq.got[t] # Pending /\ rq.got[t].ok

IdleReq ==
    [pc |-> "idle", endpoint |-> "none", query |-> << >>,
     got |-> [t \in Tables |-> Pending], after |-> {},
     resp |-> NoResp]

Init ==
    /\ remote = [t \in Tables |->
                   IF t = "Items" THEN <<ItemRow(1, StrA, 10)>>
                   ELSE <<TagRow(1, 10, <<"T", "1">>)>>]
    /\ now = 0
    /\ dedupes = [t \in Tables |-> FALSE]
    /\ storage = [t \in Tables |-> NoEntry]
    /\ fetchCount = [t \in Tables |-> 0]
    /\ req = [r \in Reqs |-> IdleReq]
    /\ tables = [Items |-> << >>, Tags |-> << >>]
    /\ call = NoCall
    /\ reply = << >>

\* request q has been answered and the ttl of the entries it used has not
\* elapsed
answeredWithin(q) ==
    /\ req[q].pc = "done"
    /\ \A t \in Tables : now < req[q].got[t].start + CacheTtl

\* an HTTP request arrives: the handler calls fetchItems() and fetchTags()
\* and yields at await Promise.all(...), also when both values are at hand.
\* got[t] is the promise the handler holds for table t; after records the
\* requests that had been answered by then from entries still unexpired.
Request(r, c) ==
    /\ req[r].pc = "idle"
    /\ \A q \in Reqs : q < r => req[q].pc # "idle"
    /\ LET how == [t \in Tables |-> lookup(t)]
           got == [t \in Tables |-> IF how[t] = "hit" THEN storage[t] ELSE Pending]
       IN  /\ dedupes' = [t \in Tables |-> dedupes[t] \/ how[t] = "miss"]
           /\ storage' = [t \in Tables |->
                            IF how[t] = "miss" THEN NoEntry ELSE storage[t]]
           /\ fetchCount' = [t \in Tables |->
                               IF how[t] = "miss" THEN fetchCount[t] + 1
                               ELSE fetchCount[t]]
           /\ req' = [req EXCEPT ![r] =
                        [pc |-> "waiting", endpoint |-> c.endpoint,
                         query |-> c.query, got |-> got,
                         after |-> {q \in Reqs : answeredWithin(q)},
                         resp |-> NoResp]]
    /\ UNCHANGED <<remote, now, handlerVars>>

\* the promises of the requests after the call in flight for table t ended
\* with entry: every promise that waits for the call settles with it
deliver(t, entry) ==
    [r \in Reqs |->
        IF req[r].pc # "idle" /\ req[r].got[t] = Pending
        THEN [req[r] EXCEPT !.got[t] = entry]
        ELSE req[r]]

\* api.fetchTable(t) resolves with the rows the remote store holds
Resolve(t) ==
    /\ dedupes[t]
    /\ LET entry == [ok |-> TRUE, value |-> remote[t], start |-> now]
       IN  /\ storage' = [storage EXCEPT ![t] = entry]
           /\ req' = deliver(t, entry)
    /\ dedupes' = [dedupes EXCEPT ![t] = FALSE]
    /\ UNCHANGED <<remote, now, fetchCount, handlerVars>>

\* api.fetchTable(t) rejects
Reject(t) ==
    /\ dedupes[t]
    /\ LET entry == [ok |-> FALSE]
       IN  /\ storage' = [storage EXCEPT ![t] = afterReject(entry)]
           /\ req' = deliver(t, entry)
    /\ dedupes' = [dedupes EXCEPT ![t] = FALSE]
    /\ UNCHANGED <<remote, now, fetchCount, handlerVars>>

\* await Promise.all(...) resumes with both tables and the handler body runs
Resume(r) ==
    /\ req[r].pc = "waiting"
    /\ resolved(req[r])
    /\ req' = [req EXCEPT ![r].pc = "computed",
                          ![r].resp =
                              [status |-> 200,
                               body |-> handle(req[r].endpoint,
                                               req[r].got["Items"].value,
                                               req[r].got["Tags"].value,
                                               req[r].query)]]
    /\ UNCHANGED <<remote, now, dedupes, storage, fetchCount, handlerVars>>

\* the value the handler returned is sent as the response
Answer(r) ==
    /\ req[r].pc = "computed"
    /\ req' = [req EXCEPT ![r].pc = "done"]
    /\ UNCHANGED <<remote, now, dedupes, storage, fetchCount, handlerVars>>

\* await Promise.all(...) throws the rejection out of the handler, whatever
\* the other fetch does: the request is answered with an error
Throw(r) ==
    /\ req[r].pc = "waiting"
    /\ rejected(req[r])
    /\ req' = [req EXCEPT ![r].pc = "failed", ![r].resp = [status |-> 500]]
    /\ UNCHANGED <<remote, now, dedupes, storage, fetchCount, handlerVars>>

\* time passes
Tick ==
    /\ now + TickStep <= MaxNow
    /\ now' = now + TickStep
    /\ UNCHANGED <<remote, dedupes, storage, fetchCount, req, handlerVars>>

\* somebody adds rows to a table of the remote store
RemoteChange(t, rows) ==
    /\ Len(rows) > Len(remote[t])
    /\ remote' = [remote EXCEPT ![t] = rows]
    /\ UNCHANGED <<now, dedupes, storage, fetchCount, req, handlerVars>>

Next ==
    \/ \E r \in Reqs, c \in Calls : Request(r, c)
    \/ \E t \in Tables : Resolve(t)
    \/ \E t \in Tables : Reject(t)
    \/ \E r \in Reqs : Resume(r)
    \/ \E r \in Reqs : Answer(r)
    \/ \E r \in Reqs : Throw(r)
    \/ Tick
    \/ \E t \in Tables : \E rows \in RemoteOf(t) : RemoteChange(t, rows)

Spec == Init /\ [][Next]_vars

-----------------------------------------------------------------------------
(* Properties of the cache, under Spec *)

\* request r arrives in this step
Starts(r) == req[r].pc = "idle" /\ req'[r].pc # "idle"

\* request r waits for the call in flight for table t
WaitsOn(r, t) == req[r].pc = "waiting" /\ req[r].got[t] = Pending

\* the call in flight for table t ends in this step
Ends(t) == dedupes[t] /\ ~dedupes'[t]

\* table t has a stored value whose ttl has not elapsed
Cached(t) == storage[t] # NoEntry /\ now < storage[t].start + CacheTtl

\* table t has a stored value whose ttl has elapsed
Expired(t) == storage[t] # NoEntry /\ now >= storage[t].start + CacheTtl

\* the response the handler computes from the rows request r holds
Computed(r) ==
    [status |-> 200,
     body |-> handle(req[r].endpoint, req[r].got["Items"].value,
                     req[r].got["Tags"].value, req[r].query)]

C1_OneFetch ==
    \A t \in Tables :
        (now < CacheTtl /\ \A r \in Reqs : ~rejected(req[r]))
            => fetchCount[t] = IF \E r \in Reqs : req[r].pc # "idle" THEN 1 ELSE 0

C1_Shared ==
    \A t \in Tables :
        /\ (dedupes[t] \/ Cached(t)) =>
              /\ fetchCount'[t] = fetchCount[t]
              /\ \A r \in Reqs : Starts(r) =>
                    IF dedupes[t]
                    THEN dedupes'[t] /\ req'[r].got[t] = Pending
                    ELSE req'[r].got[t] = storage[t]
        /\ Ends(t) =>
              \A r1, r2 \in Reqs :
                  (WaitsOn(r1, t) /\ WaitsOn(r2, t)) =>
                      /\ req'[r1].got[t] # Pending
                      /\ req'[r1].got[t] = req'[r2].got[t]

\* C1: a call of the cached fetchTable that starts while a remote fetch of
\* the table is in flight, or while its stored value is unexpired, issues no
\* remote fetch: it waits for the call in flight (and every waiting request
\* gets that call's outcome) or takes the stored value; and as long as no
\* fetch failed, the requests arriving within the first ttl window cause
\* exactly one remote fetch of each table.
C1_Coalescing == [](C1_OneFetch) /\ [][C1_Shared]_vars

\* two requests were in flight together and one remote fetch per table served both
C1_Witness ==
    /\ \A r \in Reqs : r <= 2 => req[r].pc = "done"
    /\ req[1].got = req[2].got
    /\ req[2].after = {}
    /\ \A t \in Tables : fetchCount[t] = 1 /\ req[1].got[t].start > 0

C2_Propagates ==
    \A t \in Tables :
        /\ (\E r \in Reqs : /\ WaitsOn(r, t)
                            /\ req'[r].got[t] # Pending
                            /\ ~req'[r].got[t].ok) =>
              /\ \A q \in Reqs : WaitsOn(q, t) => rejected(req'[q])
              /\ storage'[t] = NoEntry
              /\ ~dedupes'[t]
        /\ \A r \in Reqs : Starts(r) =>
              /\ ~rejected(req'[r])
              /\ (~dedupes[t] /\ ~Cached(t)) =>
                    /\ fetchCount'[t] = fetchCount[t] + 1
                    /\ dedupes'[t]
                    /\ req'[r].got[t] = Pending

C2_Fails ==
    \A r \in Reqs :
        /\ rejected(req[r]) =>
              /\ req[r].pc \in {"waiting", "failed"}
              /\ rejected(req'[r])
        /\ (req[r].pc # "failed" /\ req'[r].pc = "failed") =>
              /\ rejected(req[r])
              /\ req'[r].resp = [status |-> 500]

\* C2: when the remote fetch of a table fails, every request waiting for
\* that fetch receives the failure, no entry is stored for the table and no
\* call stays in flight; a request that holds a failure is never answered
\* with data, and the only answer it gets is the error; a request that
\* arrives is never handed an earlier failure, and when no call is in flight
\* and no unexpired value is stored it issues a new remote fetch.
C2_FailureNotCached == [][C2_Propagates /\ C2_Fails]_vars

\* a request failed on a rejected fetch of Items, and a later request was
\* answered from a second remote fetch of Items
C2_Witness ==
    /\ req[1].pc = "failed"
    /\ req[1].got["Items"] # Pending
    /\ ~req[1].got["Items"].ok
    /\ req[2].pc = "done"
    /\ fetchCount["Items"] = 2

\* request r2 arrived after r1 was answered, before the ttl of the entries r1
\* used had elapsed, for the same endpoint with the same query
Within(r1, r2) ==
    /\ r1 \in req[r2].after
    /\ req[r2].endpoint = req[r1].endpoint
    /\ req[r2].query = req[r1].query

\* C3: when a request has been answered with data and a request for the
\* same endpoint with the same query arrives before the ttl of the entries
\* the first one used has elapsed, the second one holds the same rows from
\* its arrival on, never fails, and the response it computes and sends is
\* the first one's, whatever the remote store holds by then.
C3_CacheMasking ==
    \A r1, r2 \in Reqs :
        Within(r1, r2) =>
            /\ req[r2].got = req[r1].got
            /\ req[r2].pc # "failed"
            /\ req[r2].pc \in {"computed", "done"} => req[r2].resp = req[r1].resp

\* two equal answers to the same call, the second asked after the first was
\* given, after time passed and while the remote store holds other rows than
\* the ones answered
C3_Witness ==
    /\ req[1].pc = "done" /\ req[2].pc = "done"
    /\ Within(1, 2)
    /\ req[1].resp = req[2].resp
    /\ now > 0
    /\ \A t \in Tables : req[2].got[t].start = 0 /\ remote[t] # req[2].got[t].value
    /\ \A t \in Tables : fetchCount[t] = 1

C4_Refetch ==
    \A t \in Tables :
        /\ \A r \in Reqs : (Starts(r) /\ Expired(t)) =>
              /\ fetchCount'[t] = fetchCount[t] + 1
              /\ dedupes'[t]
              /\ req'[r].got[t] = Pending
        /\ \A r \in Reqs : (Starts(r) /\ req'[r].got[t] # Pending) =>
              /\ req'[r].got[t] = storage[t]
              /\ now < storage[t].start + CacheTtl
        /\ Ends(t) =>
              \A r \in Reqs : (WaitsOn(r, t) /\ req'[r].got[t].ok) =>
                  /\ req'[r].got[t].value = remote[t]
                  /\ req'[r].got[t].start = now

C4_FromFetched ==
    \A r \in Reqs :
        /\ \A t \in Tables :
              (req[r].pc # "idle" /\ req[r].got[t] # Pending) =>
                  req'[r].got[t] = req[r].got[t]
        /\ (req[r].pc \notin {"computed", "done"}
              /\ req'[r].pc \in {"computed", "done"}) =>
              /\ resolved(req[r])
              /\ req'[r].resp = Computed(r)
        /\ req[r].pc \in {"computed", "done"} =>
              /\ req'[r].pc \in {"computed", "done"}
              /\ req'[r].resp = req[r].resp

\* C4: a request that arrives when the stored value of a table has expired
\* issues a new remote fetch of it and waits for it; a request that waits
\* for a remote fetch gets the rows the remote store holds when the fetch
\* resolves; a request is never handed a stored value whose ttl has elapsed,
\* never exchanges the rows it holds, and its response is computed from them
\* and stays as computed.
C4_NoStaleness == [][C4_Refetch /\ C4_FromFetched]_vars

\* the second request arrived after the first answer expired and was
\* answered from a second fetch, with other rows
C4_Witness ==
    /\ req[1].pc = "done" /\ req[2].pc = "done"
    /\ req[1].endpoint = req[2].endpoint /\ req[1].query = req[2].query
    /\ \A t \in Tables :
          /\ fetchCount[t] = 2
          /\ req[2].got[t].start >= req[1].got[t].start + CacheTtl
          /\ req[2].got[t].value # req[1].got[t].value
    /\ req[2].resp # req[1].resp

-----------------------------------------------------------------------------
(* The handler check: the handlers as functions of the fetched rows *)

InitHandlers ==
    /\ tables \in [Items : ItemTables, Tags : TagTables]
    /\ call = NoCall
    /\ reply = << >>
    /\ remote = << >>
    /\ now = 0
    /\ dedupes = << >>
    /\ storage = << >>
    /\ fetchCount = << >>
    /\ req = << >>

\* GET /items with a query, on the fetched rows
CallItems(query) ==
    /\ call = NoCall
    /\ call' = [endpoint |-> "items", query |-> query]
    /\ reply' = getItems(tables.Items, tables.Tags, query)
    /\ UNCHANGED <<tables, cacheVars>>

\* GET /tags with a query, on the fetched rows
CallTags(query) ==
    /\ call = NoCall
    /\ call' = [endpoint |-> "tags", query |-> query]
    /\ reply' = getTags(tables.Items, tables.Tags, query)
    /\ UNCHANGED <<tables, cacheVars>>

NextHandlers ==
    \/ \E query \in ItemsQueries : CallItems(query)
    \/ \E query \in TagsQueries : CallTags(query)

SpecHandlers == InitHandlers /\ [][NextHandlers]_vars

-----------------------------------------------------------------------------
(* Properties of the handlers, under SpecHandlers *)

Range(seq) == {seq[k] : k \in DOMAIN seq}

HasComma(str) == \E k \in DOMAIN str : str[k] = ","

\* the rows have pairwise distinct values in a column
Distinct(rows, key) ==
    \A j, k \in DOMAIN rows : j # k => rows[j][key] # rows[k][key]

NoQuery == [id |-> undefined, tag |-> undefined]

\* what GET /items and GET /tags return without a query
allItems == getItems(tables.Items, tables.Tags, NoQuery)
allTags == getTags(tables.Items, tables.Tags, [id |-> undefined])

\* the /tags result links tag t to item i
Linked(t, i) == t.link # null /\ t.link.id = i.id

\* the call is GET /items?id=<the ID2 of a row> on rows with distinct ID2
C5_Case ==
    /\ call.endpoint = "items"
    /\ call.query.tag = undefined
    /\ call.query.id # undefined
    /\ Distinct(tables.Items, "ID2")
    /\ \E k \in DOMAIN tables.Items : tables.Items[k].ID2 = call.query.id

\* C5 as stated: for every id, the empty string and ids with a comma
\* included, GET /items?id=i.id returns exactly the item with that id.
C5_Original ==
    C5_Case => (Len(reply) = 1 /\ reply[1].id = call.query.id)

\* C5, amended: when the ID2 values are pairwise distinct and i.id is not
\* empty and holds no comma, GET /items?id=i.id returns exactly one item,
\* the one whose id is i.id.
C5_IdLookup ==
    (C5_Case /\ call.query.id # StrEmpty /\ ~HasComma(call.query.id))
        => (Len(reply) = 1 /\ reply[1].id = call.query.id)

\* two items with distinct ids, one of them "A", and GET /items?id=A
C5_Witness ==
    /\ C5_Case
    /\ call.query.id = StrA
    /\ Len(tables.Items) = 2
    /\ Len(reply) = 1

\* the call is GET /items?tag=...
C6_Case ==
    /\ call.endpoint = "items"
    /\ call.query.id = undefined
    /\ call.query.tag # undefined

\* every item the /tags result links to a tag with the queried id is returned
C6_Agree ==
    \A t \in Range(allTags) : \A i \in Range(allItems) :
        (t.id = call.query.tag /\ Linked(t, i)) => i \in Range(reply)

\* C6 as stated: for all tables, if /tags gives t.link.id = i.id then
\* GET /items?tag=t.id contains i.
C6_Original == C6_Case => C6_Agree

\* C6, amended: when the tag rows have pairwise distinct numeric ids, the
\* item rows have pairwise distinct ID2 and t.id holds no comma, then
\* t.link.id = i.id implies that GET /items?tag=t.id contains i; several
\* item rows may share a Tag value.
C6_LinkTagAgreement ==
    ( /\ C6_Case
      /\ Distinct(tables.Tags, "id")
      /\ Distinct(tables.Items, "ID2")
      /\ ~HasComma(call.query.tag) )
    => C6_Agree

\* two item rows share the Tag of the queried tag; the linked one is returned
C6_Witness ==
    /\ C6_Case
    /\ call.query.tag = StrA
    /\ Distinct(tables.Tags, "id")
    /\ Distinct(tables.Items, "ID2")
    /\ Len(tables.Items) = 2
    /\ tables.Items[1].Tag = tables.Items[2].Tag
    /\ \E t \in Range(allTags) : \E i \in Range(allItems) :
          t.id = StrA /\ Linked(t, i) /\ i \in Range(reply)

\* the tags of a returned item, for the row it comes from
C7_Tags(item, row) ==
    LET m == {j \in DOMAIN tables.Tags : tables.Tags[j].id = row.Tag}
    IN  IF m = {} THEN item.tags = << >>
        ELSE \E j \in m : item.tags = <<tables.Tags[j].ID2>>

\* C7: GET /items answers for all tables; an item whose Tag is the id of no
\* tag row is returned with tags = [], and an item whose Tag is the id of a
\* tag row with the one-element list holding the ID2 of a tag row with that id.
C7_DanglingTag ==
    call.endpoint = "items" =>
        /\ call.query = NoQuery =>
              /\ Len(reply) = Len(tables.Items)
              /\ \A k \in DOMAIN reply :
                    /\ reply[k].id = tables.Items[k].ID2
                    /\ C7_Tags(reply[k], tables.Items[k])
        /\ \A n \in DOMAIN reply : \E k \in DOMAIN tables.Items :
              /\ reply[n].id = tables.Items[k].ID2
              /\ C7_Tags(reply[n], tables.Items[k])

\* one row's Tag matches no tag row, the other row's Tag matches one
C7_Witness ==
    /\ call.endpoint = "items" /\ call.query = NoQuery
    /\ Len(tables.Items) = 2 /\ Len(tables.Tags) = 1
    /\ tables.Items[1].Tag # tables.Tags[1].id
    /\ tables.Items[2].Tag = tables.Tags[1].id
    /\ reply[1].tags = << >>
    /\ reply[2].tags = <<tables.Tags[1].ID2>>

\* the pieces of a query value between its commas
Values(str) == Range(split(str))

\* the comma-separated values of a query parameter: its non-empty tokens
Tokens(str) == Values(str) \ {StrEmpty}

\* C8 as stated: an item is returned iff (id is absent or the item's id is
\* one of the id values) and (tag is absent or one of the item's tags is one
\* of the tag values), in row order; without parameters every row is returned.
C8_FilterSemantics ==
    call.endpoint = "items" =>
        /\ reply = SelectSeq(allItems, LAMBDA item :
                      /\ call.query.id = undefined \/ item.id \in Tokens(call.query.id)
                      /\ \/ call.query.tag = undefined
                         \/ \E k \in DOMAIN item.tags :
                               item.tags[k] \in Tokens(call.query.tag))
        /\ call.query = NoQuery => Len(reply) = Len(tables.Items)

\* C9 as stated: a query value accepts its non-empty tokens only, so an
\* empty token accepts no empty id and no empty tag, and an empty query
\* value accepts nothing.
C9_EmptyTokens ==
    /\ call.endpoint = "items" =>
          \A n \in DOMAIN reply :
              /\ call.query.id # undefined => reply[n].id \in Tokens(call.query.id)
              /\ call.query.tag # undefined =>
                    \E k \in DOMAIN reply[n].tags :
                        reply[n].tags[k] \in Tokens(call.query.tag)
    /\ call.endpoint = "tags" =>
          \A n \in DOMAIN reply :
              call.query.id # undefined => reply[n].id \in Tokens(call.query.id)

\* the item rows that reference tag row k
C10_Refs(k) ==
    {j \in DOMAIN tables.Items : tables.Items[j].Tag = tables.Tags[k].id}

\* the link of every tag, the agreement with the items' tags, and no tag id
\* in the tags of two items
C10_Link ==
    /\ \A k \in DOMAIN reply :
          /\ reply[k].link = null <=> C10_Refs(k) = {}
          /\ C10_Refs(k) # {} =>
                /\ Cardinality(C10_Refs(k)) = 1
                /\ reply[k].link # null
                /\ \A j \in C10_Refs(k) : reply[k].link.id = tables.Items[j].ID2
    /\ \A t \in Range(reply) : \A i \in Range(allItems) :
          Linked(t, i) <=> t.id \in Range(i.tags)
    /\ \A j, k \in DOMAIN allItems :
          j # k => Range(allItems[j].tags) \cap Range(allItems[k].tags) = {}

\* the call is GET /tags without a query
C10_Case == call.endpoint = "tags" /\ call.query.id = undefined

\* C10 as stated: for all tables the link is one-to-one.
C10_Original == C10_Case => C10_Link

\* the tables hold a one-to-one association
C10_Tables ==
    /\ Distinct(tables.Tags, "id")
    /\ Distinct(tables.Tags, "ID2")
    /\ Distinct(tables.Items, "ID2")
    /\ \A j \in DOMAIN tables.Items : tables.Items[j].ID2 # StrEmpty
    /\ \A j, k \in DOMAIN tables.Items :
          (j # k /\ tables.Items[j].Tag = tables.Items[k].Tag)
              => \A n \in DOMAIN tables.Tags : tables.Tags[n].id # tables.Items[j].Tag

\* C10, amended: when the tag rows have pairwise distinct numeric ids and
\* pairwise distinct ID2, the item rows have pairwise distinct non-empty ID2
\* and no two item rows share a Tag value that is the id of a tag row, then
\* a tag's link is null exactly when no item row references it, otherwise
\* it names the single referencing row; t.link.id = i.id iff t.id is in
\* i.tags; and no tag id is in the tags of two items.
C10_OneToOne == (C10_Case /\ C10_Tables) => C10_Link

\* two tags, one linked to the item that references it and one not linked
C10_Witness ==
    /\ C10_Case /\ C10_Tables
    /\ Len(tables.Tags) = 2 /\ Len(tables.Items) = 1
    /\ reply[1].link = [id |-> tables.Items[1].ID2, type |-> TagTypeItem]
    /\ reply[2].link = null
====
